---- MODULE Spec2Model ----
(***************************************************************************)
(* Model of the Kivy chat client for an Ollama server:                     *)
(*   kivy/ollamaApi.py  get_llm_models, chat_with_llm                      *)
(*   kivy/main.py       MyApp (send_message, ollama_callback, navigation)  *)
(*                                                                         *)
(* Text is modelled character by character: a Python str is a sequence of  *)
(* one-character strings, so strip(), find() and re.sub() are computed as  *)
(* the interpreter computes them.  Python/JSON values are tagged records.  *)
(***************************************************************************)
EXTENDS Naturals, Integers, Sequences, FiniteSets, TLC

VARIABLES
    ollama_uri,      \* MyApp.ollama_uri (str)
    selected_llm,    \* MyApp.selected_llm (str)
    llm_menu,        \* MyApp.llm_menu.items: the model names offered
    messages,        \* MyApp.messages: the transcript, a list of dicts
    is_llm_running,  \* MyApp.is_llm_running: the in-flight guard
    current,         \* MyApp.root.current: name of the screen shown
    welcomed,        \* MyApp.chat_history_id has been bound
    tmp_spin,        \* the spinner widget is in the chat history
    bot_msg,         \* text of the last bot widget added (api_msg), or None
    toast,           \* the last snackbar shown, or None
    chat_input,      \* chat_input_widget.text after the last send_message
    threads,         \* worker threads started by send_message, still alive
    clock,           \* callbacks queued by Clock.schedule_once, FIFO
    posted,          \* JSON body of the last POST put on the wire, or None
    cb_log,          \* execution context of every callback invocation
    ui_pc,           \* position of the UI thread inside a handler
    call             \* the last call of a function of ollamaApi (or of re.sub):
                     \* what it was given and what it returned

vars == <<ollama_uri, selected_llm, llm_menu, messages, is_llm_running, current,
          welcomed, tmp_spin, bot_msg, toast, chat_input,
          threads, clock, posted, cb_log, ui_pc, call>>

app_vars == <<ollama_uri, selected_llm, llm_menu, messages, is_llm_running, current,
              welcomed, tmp_spin, bot_msg, toast, chat_input,
              threads, clock, posted, cb_log, ui_pc>>

----------------------------------------------------------------------------
(* Python values *)

None == [t |-> "none"]
PyStr(s) == [t |-> "str", s |-> s]
PyInt(n) == [t |-> "int", n |-> n]
PyList(l) == [t |-> "list", l |-> l]
\* A dict: k lists its keys (as str) in insertion order, the order Python
\* iterates them in; d maps each key to its value.
PyDict(k, d) == [t |-> "dict", k |-> k, d |-> d]

\* The outcome of evaluating an expression: a value, or a raised exception
\* whose str() is msg.
Ok(v) == [raised |-> FALSE, val |-> v]
Raise(msg) == [raised |-> TRUE, msg |-> msg]

----------------------------------------------------------------------------
(* String literals of the source *)

STR_user == <<"u", "s", "e", "r">>
STR_assistant == <<"a", "s", "s", "i", "s", "t", "a", "n", "t">>
STR_error == <<"e", "r", "r", "o", "r">>
STR_err_llm == <<"*", "*", "E", "r", "r", "o", "r", "*", "*", " ", "i", "n", " ", "L", "L", "M", " ", "r", "e", "s", "p", "o", "n", "s", "e", "!">>
STR_err_ollama == <<"*", "*", "E", "r", "r", "o", "r", "*", "*", " ", "w", "i", "t", "h", " ", "O", "l", "l", "a", "m", "a", ":", " ">>
STR_bot == <<"*", "*", "B", "o", "t", ":", "*", "*", " ", "\n">>
STR_embed == <<"e", "m", "b", "e", "d">>
STR_think_open == <<"<", "T", "H", "I", "N", "K", ">">>
STR_think_close == <<"<", "/", "T", "H", "I", "N", "K", ">">>
STR_default_uri == <<"h", "t", "t", "p", ":", "/", "/", "l", "o", "c", "a", "l", "h", "o", "s", "t", ":", "1", "1", "4", "3", "4">>
STR_None == <<"N", "o", "n", "e">>

----------------------------------------------------------------------------
(* str methods and the regular expression of ollama_callback *)

UPPER == <<"A", "B", "C", "D", "E", "F", "G", "H", "I", "J", "K", "L", "M",
           "N", "O", "P", "Q", "R", "S", "T", "U", "V", "W", "X", "Y", "Z">>
LOWER == <<"a", "b", "c", "d", "e", "f", "g", "h", "i", "j", "k", "l", "m",
           "n", "o", "p", "q", "r", "s", "t", "u", "v", "w", "x", "y", "z">>

\* Case folding of one character, as re.IGNORECASE compares characters.
Lower(c) ==
    IF \E k \in 1..26 : UPPER[k] = c
    THEN LOWER[CHOOSE k \in 1..26 : UPPER[k] = c]
    ELSE c

\* Characters str.strip() removes: those for which str.isspace() is true.
\* Of the characters a string of this module can hold (up to U+00FF) these
\* are: space, \t, \n, \r, \f (form feed), the vertical tab (U+000B), the
\* separators U+001C..U+001F, next line (U+0085) and the no-break space
\* (U+00A0).
IsSpace(c) ==
    c \in {" ", "\n", "\t", "\r", "\f", "", "", "", "", "",
           "", " "}

\* str.strip(): drop leading and trailing whitespace.
RECURSIVE lstrip(_)
lstrip(s) == IF s # <<>> /\ IsSpace(Head(s)) THEN lstrip(Tail(s)) ELSE s

RECURSIVE rstrip(_)
rstrip(s) ==
    IF s # <<>> /\ IsSpace(s[Len(s)]) THEN rstrip(SubSeq(s, 1, Len(s) - 1)) ELSE s

strip(s) == rstrip(lstrip(s))

\* The pattern pat occurs in s at index i (1-based), compared exactly.
StartsAt(s, i, pat) ==
    /\ i + Len(pat) - 1 <= Len(s)
    /\ \A k \in 1..Len(pat) : s[i + k - 1] = pat[k]

\* str.find(sub): index (0-based) of the first occurrence scanning from the
\* left, -1 when there is none.
RECURSIVE find_from(_, _, _)
find_from(s, sub, i) ==
    IF i + Len(sub) - 1 > Len(s) THEN -1
    ELSE IF StartsAt(s, i, sub) THEN i - 1
    ELSE find_from(s, sub, i + 1)

find(s, sub) == find_from(s, sub, 1)

\* The literal pat matches s at index i under re.IGNORECASE.
MatchAt(s, i, pat) ==
    /\ i + Len(pat) - 1 <= Len(s)
    /\ \A k \in 1..Len(pat) : Lower(s[i + k - 1]) = Lower(pat[k])

\* Where the lazy `.*?` stops: the first index >= j at which the closing tag
\* matches; 0 when there is none.  With re.DOTALL `.` matches every
\* character, the newline included.
RECURSIVE LazyClose(_, _)
LazyClose(s, j) ==
    IF j + Len(STR_think_close) - 1 > Len(s) THEN 0
    ELSE IF MatchAt(s, j, STR_think_close) THEN j
    ELSE LazyClose(s, j + 1)

\* re.sub(r'<THINK>.*?</THINK>', '', s, flags=re.DOTALL | re.IGNORECASE):
\* one scan from the left; every non-overlapping match is dropped and the
\* scan resumes after the match.
RECURSIVE re_sub_from(_, _)
re_sub_from(s, i) ==
    IF i > Len(s) THEN <<>>
    ELSE LET j == IF MatchAt(s, i, STR_think_open)
                  THEN LazyClose(s, i + Len(STR_think_open))
                  ELSE 0
         IN  IF j # 0
             THEN re_sub_from(s, j + Len(STR_think_close))
             ELSE <<s[i]>> \o re_sub_from(s, i + 1)

re_sub_think(s) == re_sub_from(s, 1)

----------------------------------------------------------------------------
(* HTTP as seen through the requests library *)

\* requests.get / requests.post raised before any response (connection
\* refused, timeout, ...); msg is str(e).
HttpRaise(msg) == [kind |-> "raise", msg |-> msg]
\* A response with a status code whose body decodes to the JSON value v.
HttpJson(status, v) == [kind |-> "resp", status |-> status, json |-> Ok(v)]
\* A response whose body is not JSON: Response.json() raises with str(e) = msg.
HttpBad(status, msg) == [kind |-> "resp", status |-> status, json |-> Raise(msg)]

\* Response.raise_for_status(): raises HTTPError on a 4xx or 5xx status.
raise_for_status(response) ==
    IF 400 <= response.status /\ response.status < 600
    THEN Raise(<<"H", "T", "T", "P", " ">> \o <<"e", "r", "r", "o", "r">>)
    ELSE Ok(None)

\* type(v).__name__, as exception messages print it.
TypeName(v) ==
    CASE v.t = "none" -> <<"N", "o", "n", "e", "T", "y", "p", "e">>
      [] v.t = "int"  -> <<"i", "n", "t">>
      [] v.t = "bool" -> <<"b", "o", "o", "l">>
      [] v.t = "str"  -> <<"s", "t", "r">>
      [] v.t = "list" -> <<"l", "i", "s", "t">>
      [] v.t = "dict" -> <<"d", "i", "c", "t">>

\* `key in v` for a literal str key (key names it as a dict key, keychars
\* as a str).  A dict tests its keys, a list its elements, a str tests for
\* a substring; the other JSON values (int, bool, None) raise TypeError.
py_in(key, keychars, v) ==
    CASE v.t = "dict" -> Ok(key \in DOMAIN v.d)
      [] v.t = "list" -> Ok(\E k \in 1..Len(v.l) : v.l[k] = PyStr(keychars))
      [] v.t = "str"  -> Ok(find(v.s, keychars) # -1)
      [] OTHER        ->
           Raise(<<"a", "r", "g", "u", "m", "e", "n", "t", " ", "o", "f", " ", "t", "y", "p", "e", " ", "'">>
                 \o TypeName(v) \o <<"'", " ", "i", "s", " ", "n", "o", "t", " ", "i", "t", "e", "r", "a", "b", "l", "e">>)

\* `v[key]` for a literal str key: the value of a dict, KeyError when the
\* key is missing, TypeError when v is a list or a str, or not
\* subscriptable at all.
py_getitem(v, key, keychars) ==
    CASE v.t = "dict" ->
           IF key \in DOMAIN v.d THEN Ok(v.d[key])
           ELSE Raise(<<"'">> \o keychars \o <<"'">>)
      [] v.t = "list" ->
           Raise(<<"l", "i", "s", "t", " ", "i", "n", "d", "i", "c", "e", "s", " ", "m", "u", "s", "t", " ", "b", "e", " ", "i", "n", "t", "e", "g", "e", "r", "s", " ">>
                 \o <<"o", "r", " ", "s", "l", "i", "c", "e", "s", ",", " ", "n", "o", "t", " ", "s", "t", "r">>)
      [] v.t = "str"  ->
           Raise(<<"s", "t", "r", "i", "n", "g", " ", "i", "n", "d", "i", "c", "e", "s", " ", "m", "u", "s", "t", " ", "b", "e", " ">>
                 \o <<"i", "n", "t", "e", "g", "e", "r", "s", ",", " ", "n", "o", "t", " ", "'", "s", "t", "r", "'">>)
      [] OTHER        ->
           Raise(<<"'">> \o TypeName(v) \o <<"'", " ", "o", "b", "j", "e", "c", "t", " ", "i", "s", " ", "n", "o", "t", " ">>
                 \o <<"s", "u", "b", "s", "c", "r", "i", "p", "t", "a", "b", "l", "e">>)

----------------------------------------------------------------------------
(* ollamaApi.get_llm_models *)

KEY_name == <<"n", "a", "m", "e">>
KEY_role == <<"r", "o", "l", "e">>
KEY_content == <<"c", "o", "n", "t", "e", "n", "t">>
KEY_message == <<"m", "e", "s", "s", "a", "g", "e">>
KEY_models == <<"m", "o", "d", "e", "l", "s">>
KEY_size == <<"s", "i", "z", "e">>

\* Mutant of models_loop: the loop ends at the first embedding model
\* (break where the code skips).
RECURSIVE models_loop_break(_, _)
models_loop_break(entries, got) ==
    IF entries = <<>> THEN [raised |-> FALSE, got |-> got]
    ELSE LET model == Head(entries)
             model_name == py_getitem(model, "name", KEY_name)
         IN  IF model_name.raised
             THEN [raised |-> TRUE, got |-> got]
             ELSE IF model_name.val.t # "str"
             THEN [raised |-> TRUE, got |-> got]
             ELSE IF find(model_name.val.s, STR_embed) = -1
             THEN models_loop_break(Tail(entries), Append(got, model_name.val.s))
             ELSE [raised |-> FALSE, got |-> got]

\* The body of the for loop, over the entries still to visit: got is the
\* list collected so far.  The outcome carries got, so that an exception
\* raised part-way leaves what was appended before it.
RECURSIVE models_loop(_, _)
models_loop(entries, got) ==
    IF entries = <<>> THEN [raised |-> FALSE, got |-> got]
    ELSE LET model == Head(entries)
             model_name == py_getitem(model, "name", KEY_name)
         IN  IF model_name.raised
             THEN [raised |-> TRUE, got |-> got]
             ELSE IF model_name.val.t # "str"
             THEN [raised |-> TRUE, got |-> got]   \* no .find on a non-str
             ELSE IF find(model_name.val.s, STR_embed) = -1
             THEN models_loop(Tail(entries), Append(got, model_name.val.s))
             ELSE models_loop(Tail(entries), got)

\* What `for model in v` visits: the elements of a list, the characters of
\* a str, the keys of a dict; TypeError for None, an int or a bool.
py_iter(v) ==
    CASE v.t = "list" -> Ok(v.l)
      [] v.t = "str"  -> Ok([k \in 1..Len(v.s) |-> PyStr(<<v.s[k]>>)])
      [] v.t = "dict" -> Ok([i \in 1..Len(v.k) |-> PyStr(v.k[i])])
      [] OTHER        ->
           Raise(<<"'">> \o TypeName(v) \o <<"'", " ", "o", "b", "j", "e", "c", "t", " ", "i", "s", " ", "n", "o", "t", " ">>
                 \o <<"i", "t", "e", "r", "a", "b", "l", "e">>)

\* models_data.get("models", []) and the iteration over it (line 42): .get
\* needs a dict (anything else has no such attribute), and the value is
\* iterated as Python iterates it.
models_entries(models_data) ==
    IF models_data.t # "dict"
    THEN Raise(<<"'">> \o TypeName(models_data) \o <<"'", " ", "o", "b", "j", "e", "c", "t", " ", "h", "a", "s", " ", "n", "o", " ">>
               \o <<"a", "t", "t", "r", "i", "b", "u", "t", "e", " ", "'", "g", "e", "t", "'">>)
    ELSE IF "models" \notin DOMAIN models_data.d THEN Ok(<<>>)
    ELSE py_iter(models_data.d["models"])

\* The try block of get_llm_models (lines 39-46).
models_try(response) ==
    IF response.kind = "raise" THEN [raised |-> TRUE, got |-> <<>>]
    ELSE IF raise_for_status(response).raised THEN [raised |-> TRUE, got |-> <<>>]
    ELSE IF response.json.raised THEN [raised |-> TRUE, got |-> <<>>]
    ELSE LET entries == models_entries(response.json.val)
         IN  IF entries.raised THEN [raised |-> TRUE, got |-> <<>>]
             ELSE models_loop(entries.val, <<>>)

\* Mutant of models_except: the exception is logged and raised again.
models_except_reraise(outcome) == [raised |-> TRUE, got |-> outcome.got]

\* The except clause (lines 47-50): every Exception is caught and the list
\* collected so far is returned.
models_except(outcome) == Ok(outcome.got)

\* get_llm_models(url), given the server's answer to GET {url}/api/tags.
get_llm_models(url, response) ==
    LET outcome == models_try(response)
    IN  IF outcome.raised THEN models_except(outcome) ELSE Ok(outcome.got)

----------------------------------------------------------------------------
(* ollamaApi.chat_with_llm *)

PyFalse == [t |-> "bool", b |-> FALSE]

ErrorResp(content) ==
    PyDict(<<KEY_role, KEY_content>>, [role |-> PyStr(STR_error), content |-> PyStr(content)])

\* The request body (lines 75-79).
msg_body(model, msgs) ==
    PyDict(<< <<"m", "o", "d", "e", "l">>, <<"m", "e", "s", "s", "a", "g", "e", "s">>, <<"s", "t", "r", "e", "a", "m">> >>, [model |-> PyStr(model), messages |-> PyList(msgs), stream |-> PyFalse])

\* The try block (lines 85-93): POST, decode, look for "message".
chat_try(response) ==
    IF response.kind = "raise" THEN Raise(response.msg)
    ELSE IF response.json.raised THEN Raise(response.json.msg)
    ELSE LET respDict == response.json.val
             has == py_in("message", KEY_message, respDict)
         IN  IF has.raised THEN Raise(has.msg)
             ELSE IF has.val
             THEN py_getitem(respDict, "message", KEY_message)
             ELSE Ok(ErrorResp(STR_err_llm))

\* Mutant of chat_except: the error dict drops the exception text.
chat_except_notext(outcome) == Ok(ErrorResp(STR_err_ollama))

\* The except clause (lines 94-100): every Exception becomes an error dict.
chat_except(outcome) == Ok(ErrorResp(STR_err_ollama \o outcome.msg))

\* return_resp at line 101.
chat_return_resp(response) ==
    LET outcome == chat_try(response)
    IN  IF outcome.raised THEN chat_except(outcome) ELSE outcome

\* Mutant of chat_deliver: the callback is called where the request ran.
chat_deliver_inline(return_resp, callback) ==
    IF callback
    THEN [scheduled |-> <<>>, direct |-> <<return_resp>>, ret |-> None]
    ELSE [scheduled |-> <<>>, direct |-> <<>>, ret |-> return_resp]

\* Lines 101-108: with a callback the result is queued on the Kivy clock
\* (scheduled) and the function returns None; without one the result is
\* returned.  direct lists the callback invocations made by the calling
\* thread itself: there are none.
chat_deliver(return_resp, callback) ==
    IF callback
    THEN [scheduled |-> <<return_resp>>, direct |-> <<>>, ret |-> None]
    ELSE [scheduled |-> <<>>, direct |-> <<>>, ret |-> return_resp]

\* The POST of line 85: chat_url (line 74) and the JSON body.
chat_request(url, model, msgs) ==
    [url |-> url \o <<"/", "a", "p", "i", "/", "c", "h", "a", "t">>,
     json |-> msg_body(model, msgs)]

\* chat_with_llm(url, model, messages, callback), given the server's answer
\* to the POST.  raised: an exception left the function.
chat_with_llm(url, model, msgs, callback, response) ==
    LET r == chat_return_resp(response)
        request == chat_request(url, model, msgs)
    IN  IF r.raised
        THEN [request |-> request, raised |-> TRUE, msg |-> r.msg,
              scheduled |-> <<>>, direct |-> <<>>, ret |-> None]
        ELSE [request |-> request, raised |-> FALSE, msg |-> <<>>]
             @@ chat_deliver(r.val, callback)

----------------------------------------------------------------------------
(* Bounds and the inputs drawn by the environment *)

\* No send is accepted once the transcript holds this many entries.
MaxTranscript == 4

\* Texts the user may have typed into the chat field when pressing send.
ChatInputs ==
    { <<" ", "\f", "\n">>, <<"", "", "h", "i", "", "\n">> }

\* Texts the user may submit on the endpoint screen.
UriInputs ==
    { <<>>, <<" ", "\f", " ">>, <<"", "h", ":", "1", "\f", "">>,
      <<"\t">> \o STR_default_uri \o <<"\n">> }

Assistant(content) ==
    PyDict(<<KEY_role, KEY_content>>, [role |-> PyStr(STR_assistant), content |-> PyStr(content)])

\* Answers of the server (or of the transport) to POST /api/chat.
ChatResponses ==
    { HttpJson(200, PyDict(<<KEY_message>>, [message |-> Assistant(<<"<", "T", "h", "i", "n", "k", ">", "\n", "x", "<", "/", "t", "h", "i", "n", "k", ">", "o", "k">>)])),
      HttpJson(200, PyDict(<< <<"x">> >>, [x |-> PyInt(1)])),
      HttpJson(200, PyDict(<<KEY_message>>, [message |-> PyStr(<<"h", "m">>)])),
      HttpJson(200, PyInt(5)),
      HttpRaise(<<"r", "e", "f", "u", "s", "e", "d">>) }

Entry(name) == PyDict(<<KEY_name>>, [name |-> PyStr(name)])

\* Answers of the server (or of the transport) to GET /api/tags.
ListResponses ==
    { HttpJson(200, PyDict(<<KEY_models>>, [models |-> PyList(<<Entry(<<"a">>), Entry(<<"a", "-", "e", "m", "b", "e", "d">>), Entry(<<"b">>)>>)])),
      HttpJson(200, PyDict(<<KEY_models>>, [models |-> PyList(<<Entry(<<"a">>), PyDict(<<KEY_size>>, [size |-> PyInt(1)]), Entry(<<"b">>)>>)])),
      HttpJson(200, PyDict(<<KEY_models>>, [models |-> PyList(<<>>)])),
      HttpRaise(<<"r", "e", "f", "u", "s", "e", "d">>) }

----------------------------------------------------------------------------
(* MyApp *)

\* Number of transcript entries sent with a request: the 3 of messages[-3:].
ContextWindow == 3

\* seq[-n:], the slice of the last n elements (all of seq when it is shorter).
LastN(seq, n) ==
    IF Len(seq) <= n THEN seq ELSE SubSeq(seq, Len(seq) - n + 1, Len(seq))

Toast(message, is_error) == [message |-> message, is_error |-> is_error]

NoCall == [fn |-> "none"]

\* build() and on_start(): the state in which the main loop starts.  The
\* first screen is the endpoint screen.
Init ==
    /\ ollama_uri = STR_default_uri
    /\ selected_llm = <<>>
    /\ llm_menu = <<>>
    /\ messages = <<>>
    /\ is_llm_running = FALSE
    /\ current = "ollama_input_screen"
    /\ welcomed = FALSE
    /\ tmp_spin = FALSE
    /\ bot_msg = None
    /\ toast = None
    /\ chat_input = <<>>
    /\ threads = <<>>
    /\ clock = <<>>
    /\ posted = None
    /\ cb_log = <<>>
    /\ ui_pc = "idle"
    /\ call = NoCall

\* Mutant of go_to_chatbot: a new endpoint starts a new transcript.
go_to_chatbot_reset(text) ==
    /\ ui_pc = "idle"
    /\ current = "ollama_input_screen"
    /\ LET uri == strip(text)
       IN  IF uri # <<>>
           THEN /\ ollama_uri' = uri
                /\ messages' = <<>>
                /\ toast' = toast
           ELSE /\ ollama_uri' = ollama_uri
                /\ messages' = messages
                /\ toast' = Toast("Using default Ollama URL", FALSE)
    /\ current' = "chatbot_screen"
    /\ UNCHANGED <<selected_llm, llm_menu, is_llm_running, welcomed, tmp_spin,
                   bot_msg, chat_input, threads, clock, posted, cb_log, ui_pc, call>>

\* Mutant of go_to_chatbot: the stripped text is stored without the test
\* of line 249.
go_to_chatbot_store(text) ==
    /\ ui_pc = "idle"
    /\ current = "ollama_input_screen"
    /\ LET uri == strip(text)
       IN  /\ ollama_uri' = uri
           /\ toast' = IF uri # <<>> THEN toast
                       ELSE Toast("Using default Ollama URL", FALSE)
    /\ current' = "chatbot_screen"
    /\ UNCHANGED <<selected_llm, llm_menu, messages, is_llm_running, welcomed, tmp_spin,
                   bot_msg, chat_input, threads, clock, posted, cb_log, ui_pc, call>>

\* go_to_chatbot(instance, ollama_uri_widget), text being the widget's text.
go_to_chatbot(text) ==
    /\ ui_pc = "idle"
    /\ current = "ollama_input_screen"
    /\ LET uri == strip(text)
       IN  IF uri # <<>>
           THEN /\ ollama_uri' = uri
                /\ toast' = toast
           ELSE /\ ollama_uri' = ollama_uri
                /\ toast' = Toast("Using default Ollama URL", FALSE)
    /\ current' = "chatbot_screen"
    /\ UNCHANGED <<selected_llm, llm_menu, messages, is_llm_running, welcomed, tmp_spin,
                   bot_msg, chat_input, threads, clock, posted, cb_log, ui_pc, call>>

\* go_back_to_ollama_input(instance)
go_back_to_ollama_input ==
    /\ ui_pc = "idle"
    /\ current = "chatbot_screen"
    /\ current' = "ollama_input_screen"
    /\ UNCHANGED <<ollama_uri, selected_llm, llm_menu, messages, is_llm_running, welcomed,
                   tmp_spin, bot_msg, toast, chat_input, threads,
                   clock, posted, cb_log, ui_pc, call>>

\* update_chatbot_welcome(screen_instance), run by the chat screen when it
\* is shown, lines 366-370: chat_history_id is bound and, the endpoint being
\* non-empty, the UI thread calls get_llm_models and blocks in requests.get
\* ("welcome_370") until the server has answered.  Worker threads run on
\* during the wait; no other handler and no clock event does.
update_chatbot_welcome ==
    /\ ui_pc = "idle"
    /\ current = "chatbot_screen"
    /\ welcomed' = TRUE
    /\ ui_pc' = IF ollama_uri # <<>> THEN "welcome_370" ELSE "idle"
    /\ UNCHANGED <<ollama_uri, selected_llm, llm_menu, messages, is_llm_running,
                   current, tmp_spin, bot_msg, toast, chat_input, threads, clock,
                   posted, cb_log, call>>

\* update_chatbot_welcome, lines 370-413: response is the server's answer to
\* the listing request (or its failure); get_llm_models returns and the
\* menu and the selected model are set from the names it returned.
update_chatbot_welcome_listed(response) ==
    /\ ui_pc = "welcome_370"
    /\ LET ollama_models == get_llm_models(ollama_uri, response).val
       IN  IF Len(ollama_models) >= 1
           THEN /\ selected_llm' = ollama_models[1]
                /\ llm_menu' = ollama_models
           ELSE /\ selected_llm' = STR_None
                /\ llm_menu' = <<>>
    /\ ui_pc' = "idle"
    /\ UNCHANGED <<ollama_uri, messages, is_llm_running, current, welcomed, tmp_spin,
                   bot_msg, toast, chat_input, threads, clock,
                   posted, cb_log, call>>

\* llm_menu_callback(text_item, screen): the user picks the k-th item of the
\* menu built by update_chatbot_welcome.
llm_menu_callback(k) ==
    /\ ui_pc = "idle"
    /\ current = "chatbot_screen"
    /\ k \in 1..Len(llm_menu)
    /\ selected_llm' = llm_menu[k]
    /\ UNCHANGED <<ollama_uri, llm_menu, messages, is_llm_running, current,
                   welcomed, tmp_spin, bot_msg, toast, chat_input, threads,
                   clock, posted, cb_log, ui_pc, call>>

\* The thread object created at line 333; the target is chat_with_llm and
\* the callback is self.ollama_callback.  pc is the position of the thread
\* in chat_with_llm: "start" before the POST, "post" while it is blocked in
\* requests.post, the request on the wire and the answer not yet there.
Thread(url, model, msgs, callback) ==
    [url |-> url, model |-> model, messages |-> msgs, callback |-> callback,
     pc |-> "start"]

\* Mutant of window: the whole transcript is sent.
window_all(msgs) == msgs

\* The window of the transcript passed to the worker (line 333).
window(msgs) == LastN(msgs, ContextWindow)

\* Mutant of llm_busy: the guard is never consulted.
llm_busy_never == FALSE

\* The condition of line 313.
llm_busy == is_llm_running

\* Mutant of reject_busy: the widget is blanked before the busy check.
reject_busy_consumes(text) ==
    /\ toast' = Toast("Please wait for the current response", TRUE)
    /\ chat_input' = <<>>
    /\ UNCHANGED <<messages, tmp_spin, threads, ui_pc>>

\* Lines 314-315: the busy toast and the return; the widget keeps its text.
reject_busy(text) ==
    /\ toast' = Toast("Please wait for the current response", TRUE)
    /\ chat_input' = text
    /\ UNCHANGED <<messages, tmp_spin, threads, ui_pc>>

\* send_message(button_instance, chat_input_widget), lines 313-334, text
\* being the widget's text: the busy check, the append and the thread start.
send_message(text) ==
    /\ ui_pc = "idle"
    /\ current = "chatbot_screen"
    /\ welcomed
    /\ IF llm_busy
       THEN reject_busy(text)
       ELSE LET user_message == strip(text)
            IN  IF user_message # <<>>
                THEN /\ Len(messages) < MaxTranscript
                     /\ messages' = Append(messages,
                            PyDict(<<KEY_role, KEY_content>>, [role |-> PyStr(STR_user),
                                    content |-> PyStr(user_message)]))
                     /\ chat_input' = <<>>
                     /\ tmp_spin' = TRUE
                     /\ threads' = Append(threads,
                            Thread(ollama_uri, selected_llm, window(messages'), TRUE))
                     /\ ui_pc' = "send_335"
                     /\ toast' = toast
                ELSE /\ toast' = Toast("Please type a message!", TRUE)
                     /\ chat_input' = text
                     /\ UNCHANGED <<messages, tmp_spin, threads, ui_pc>>
    /\ UNCHANGED <<ollama_uri, selected_llm, llm_menu, is_llm_running, current, welcomed,
                   bot_msg, clock, posted, cb_log, call>>

\* send_message, line 335: the guard is set after the thread was started.
send_message_set_running ==
    /\ ui_pc = "send_335"
    /\ is_llm_running' = TRUE
    /\ ui_pc' = "idle"
    /\ UNCHANGED <<ollama_uri, selected_llm, llm_menu, messages, current, welcomed,
                   tmp_spin, bot_msg, toast, chat_input, threads,
                   clock, posted, cb_log, call>>

\* threads without its i-th element.
Without(seq, i) == SubSeq(seq, 1, i - 1) \o SubSeq(seq, i + 1, Len(seq))

\* A worker thread runs chat_with_llm up to requests.post (lines 74-85): the
\* request goes out and the thread blocks until the answer is there.  The
\* thread is any thread but the UI thread.
worker_post(i) ==
    /\ ui_pc # "crashed"
    /\ i \in 1..Len(threads)
    /\ threads[i].pc = "start"
    /\ posted' = chat_request(threads[i].url, threads[i].model, threads[i].messages)
    /\ threads' = [threads EXCEPT ![i].pc = "post"]
    /\ UNCHANGED <<ollama_uri, selected_llm, llm_menu, messages, is_llm_running, current,
                   welcomed, tmp_spin, bot_msg, toast, chat_input, clock, cb_log,
                   ui_pc, call>>

\* The answer (response) comes back, or the POST fails, and the thread runs
\* chat_with_llm to its end (lines 85-108): the result is queued on the
\* clock or returned, and the thread ends.
worker_chat_with_llm(i, response) ==
    /\ ui_pc # "crashed"
    /\ i \in 1..Len(threads)
    /\ threads[i].pc = "post"
    /\ LET th == threads[i]
           r == chat_with_llm(th.url, th.model, th.messages, th.callback, response)
       IN  /\ clock' = clock \o r.scheduled
           /\ cb_log' = cb_log \o [k \in 1..Len(r.direct) |-> "worker"]
           /\ call' = [fn |-> "chat_with_llm", response |-> response,
                       callback |-> th.callback, raised |-> r.raised, ret |-> r.ret]
    /\ threads' = Without(threads, i)
    /\ UNCHANGED <<ollama_uri, selected_llm, llm_menu, messages, is_llm_running, current,
                   welcomed, tmp_spin, bot_msg, toast, chat_input, posted, ui_pc>>

\* Mutant of transcript_after: every delivered result is appended.
transcript_after_always(llm_resp, is_assistant) == Append(messages, llm_resp)

\* Lines 341-342: the transcript after the callback has looked at the role
\* of llm_resp; only a result whose role is "assistant" is appended.
transcript_after(llm_resp, is_assistant) ==
    IF is_assistant THEN Append(messages, llm_resp) ELSE messages

\* ollama_callback(llm_resp), run by the main loop for the oldest event of
\* the clock.  An exception raised in it leaves the main loop: the
\* application ends ("crashed"), with what was assigned before it.
ollama_callback ==
    /\ ui_pc = "idle"
    /\ clock # <<>>
    /\ LET llm_resp == Head(clock)
           role == py_getitem(llm_resp, "role", KEY_role)
           is_assistant == ~role.raised /\ role.val = PyStr(STR_assistant)
           content == py_getitem(llm_resp, "content", KEY_content)
       IN  /\ clock' = Tail(clock)
           /\ cb_log' = Append(cb_log, "ui")
           /\ messages' = transcript_after(llm_resp, is_assistant)
           /\ IF role.raised \/ content.raised \/ content.val.t # "str"
              THEN /\ ui_pc' = "crashed"
                   /\ UNCHANGED <<tmp_spin, is_llm_running, bot_msg>>
              ELSE /\ ui_pc' = ui_pc
                   /\ tmp_spin' = FALSE
                   /\ is_llm_running' = FALSE
                   /\ bot_msg' = PyStr(STR_bot \o re_sub_think(content.val.s))
    /\ UNCHANGED <<ollama_uri, selected_llm, llm_menu, current, welcomed, toast,
                   chat_input, threads, posted, call>>

Next ==
    \/ \E text \in UriInputs : go_to_chatbot(text)
    \/ go_back_to_ollama_input
    \/ update_chatbot_welcome
    \/ \E response \in ListResponses : update_chatbot_welcome_listed(response)
    \/ \E k \in 1..Len(llm_menu) : llm_menu_callback(k)
    \/ \E text \in ChatInputs : send_message(text)
    \/ send_message_set_running
    \/ \E i \in 1..Len(threads) : worker_post(i)
    \/ \E i \in 1..Len(threads), response \in ChatResponses :
           worker_chat_with_llm(i, response)
    \/ ollama_callback

Spec == Init /\ [][Next]_vars

----------------------------------------------------------------------------
(* chat_with_llm on its own: one call, in either delivery mode *)

UserMsg(content) == PyDict(<<KEY_role, KEY_content>>, [role |-> PyStr(STR_user), content |-> PyStr(content)])

\* Windows a caller may pass.
ChatWindows ==
    { <<UserMsg(<<"h", "i">>)>>,
      <<UserMsg(<<"h", "i">>), Assistant(<<"o", "k">>), UserMsg(<<"y", "o">>)>>,
      <<UserMsg(<<"h", "i">>), UserMsg(<<"y", "o">>), UserMsg(<<"h", "i">>)>> }

\* Answers to POST /api/chat: those of ChatResponses, and bodies of every
\* JSON type, statuses the function does not look at, undecodable bodies
\* and transport failures.
AdapterChatResponses ==
    ChatResponses \cup
    { HttpJson(200, PyDict(<<KEY_message>>, [message |-> Assistant(<<"o", "k">>)])),
      HttpJson(200, PyDict(<<KEY_message>>, [message |-> PyDict(<<KEY_role>>, [role |-> PyStr(STR_assistant)])])),
      HttpJson(200, PyDict(<<KEY_message>>, [message |-> None])),
      HttpJson(500, PyDict(<< <<"e", "r", "r", "o", "r">> >>, [error |-> PyStr(<<"n", "o">>)])),
      HttpJson(404, PyDict(<<KEY_message>>, [message |-> Assistant(<<"o", "k">>)])),
      HttpJson(200, PyInt(7)),
      HttpJson(200, None),
      HttpJson(200, PyList(<<PyStr(<<"x">>)>>)),
      HttpJson(200, PyList(<<PyStr(KEY_message)>>)),
      HttpJson(200, PyStr(<<"n", "o">>)),
      HttpJson(200, PyStr(<<"a", " ">> \o KEY_message)),
      HttpBad(200, <<"E", "x", "p", "e", "c", "t", "i", "n", "g", " ", "v", "a", "l", "u", "e", ":", " ", "l", "i", "n", "e", " ", "1", " ", "c", "o", "l", "u", "m", "n", " ", "1", " ", "(", "c", "h", "a", "r", " ", "0", ")">>),
      HttpBad(502, <<"E", "x", "p", "e", "c", "t", "i", "n", "g", " ", "v", "a", "l", "u", "e", ":", " ", "l", "i", "n", "e", " ", "1", " ", "c", "o", "l", "u", "m", "n", " ", "1", " ", "(", "c", "h", "a", "r", " ", "0", ")">>),
      HttpRaise(<<"t", "i", "m", "e", "d", " ", "o", "u", "t">>) }

\* One call of chat_with_llm about to run on a thread of its own: with the
\* callback (the state send_message leaves, guard set) or without.
InitChat ==
    \E callback \in BOOLEAN, msgs \in ChatWindows :
        /\ ollama_uri = STR_default_uri
        /\ selected_llm = <<"a">>
        /\ llm_menu = << <<"a">> >>
        /\ messages = msgs
        /\ is_llm_running = callback
        /\ current = "chatbot_screen"
        /\ welcomed = TRUE
        /\ tmp_spin = callback
        /\ bot_msg = None
        /\ toast = None
        /\ chat_input = <<>>
        /\ threads = <<Thread(STR_default_uri, <<"a">>, msgs, callback)>>
        /\ clock = <<>>
        /\ posted = None
        /\ cb_log = <<>>
        /\ ui_pc = "idle"
        /\ call = NoCall

NextChat ==
    \/ worker_post(1)
    \/ \E response \in AdapterChatResponses : worker_chat_with_llm(1, response)
    \/ ollama_callback

SpecChat == InitChat /\ [][NextChat]_vars

----------------------------------------------------------------------------
(* get_llm_models on its own *)

\* Longest model list of a listing response.
MaxModels == 3

ModelNames ==
    { <<"a">>, <<"b">>, <<"a", "-", "e", "m", "b", "e", "d">>, <<"e", "m", "b", "e", "d", "d", "e", "r">>, <<"E", "m", "b", "e", "d">>, <<"e", "m", "-", "b", "e", "d">> }

\* Entries of a listing: one per name, and one without the name field.
ListEntries == { Entry(n) : n \in ModelNames } \cup { PyDict(<<KEY_size>>, [size |-> PyInt(1)]) }

RECURSIVE SeqsUpTo(_, _)
SeqsUpTo(S, n) ==
    IF n = 0 THEN { <<>> }
    ELSE LET P == SeqsUpTo(S, n - 1)
         IN  P \cup { Append(p, x) : p \in { q \in P : Len(q) = n - 1 }, x \in S }

Listing(entries) == PyDict(<<KEY_models>>, [models |-> PyList(entries)])

\* Answers to GET /api/tags: every listing of up to MaxModels entries with
\* status 200, and short listings behind other statuses, bodies that are
\* not a listing, undecodable bodies and transport failures.
AdapterListResponses ==
    { HttpJson(200, Listing(e)) : e \in SeqsUpTo(ListEntries, MaxModels) } \cup
    { HttpJson(st, Listing(e)) : st \in {300, 404, 500},
                                 e \in { <<>>, <<Entry(<<"a">>), Entry(<<"b">>)>> } } \cup
    { HttpJson(200, PyDict(<< <<"x">> >>, [x |-> PyInt(1)])),
      HttpJson(200, PyDict(<<KEY_models>>, [models |-> None])),
      HttpJson(200, PyDict(<<KEY_models>>, [models |-> PyDict(<<>>, <<>>)])),
      HttpJson(200, PyDict(<<KEY_models>>, [models |-> PyStr(<<>>)])),
      HttpJson(200, PyDict(<<KEY_models>>, [models |-> PyStr(<<"a", "b">>)])),
      HttpJson(200, PyDict(<<KEY_models>>, [models |-> Entry(<<"x">>)])),
      HttpJson(200, PyDict(<<KEY_models>>,
                           [models |-> PyDict(<<KEY_size, KEY_name>>,
                                              [size |-> PyInt(1), name |-> PyStr(<<"x">>)])])),
      HttpJson(200, PyInt(5)),
      HttpJson(200, Listing(<<PyStr(<<"a">>)>>)),
      HttpJson(200, Listing(<<Entry(<<"a">>), PyDict(<<KEY_name>>, [name |-> PyInt(7)])>>)),
      HttpBad(200, <<"E", "x", "p", "e", "c", "t", "i", "n", "g", " ", "v", "a", "l", "u", "e", ":", " ", "l", "i", "n", "e", " ", "1", " ", "c", "o", "l", "u", "m", "n", " ", "1", " ", "(", "c", "h", "a", "r", " ", "0", ")">>),
      HttpBad(503, <<"E", "x", "p", "e", "c", "t", "i", "n", "g", " ", "v", "a", "l", "u", "e", ":", " ", "l", "i", "n", "e", " ", "1", " ", "c", "o", "l", "u", "m", "n", " ", "1", " ", "(", "c", "h", "a", "r", " ", "0", ")">>),
      HttpRaise(<<"r", "e", "f", "u", "s", "e", "d">>) }

\* The application as built, about to call get_llm_models(ollama_uri).
InitList ==
    /\ ollama_uri = STR_default_uri
    /\ selected_llm = <<>>
    /\ llm_menu = <<>>
    /\ messages = <<>>
    /\ is_llm_running = FALSE
    /\ current = "chatbot_screen"
    /\ welcomed = FALSE
    /\ tmp_spin = FALSE
    /\ bot_msg = None
    /\ toast = None
    /\ chat_input = <<>>
    /\ threads = <<>>
    /\ clock = <<>>
    /\ posted = None
    /\ cb_log = <<>>
    /\ ui_pc = "idle"
    /\ \E response \in AdapterListResponses :
           call = [fn |-> "get_llm_models", pc |-> "call", response |-> response]

\* The call of line 370, with what it returns (or raises) recorded.
call_get_llm_models ==
    /\ call.fn = "get_llm_models"
    /\ call.pc = "call"
    /\ LET r == get_llm_models(ollama_uri, call.response)
       IN  call' = [fn |-> "get_llm_models", pc |-> "done", response |-> call.response,
                    raised |-> r.raised, ret |-> IF r.raised THEN None ELSE r.val]
    /\ UNCHANGED app_vars

SpecList == InitList /\ [][call_get_llm_models]_vars

----------------------------------------------------------------------------
(* The re.sub of ollama_callback on its own *)

\* Longest input, in fragments.
MaxFragments == 5

\* Pieces of model output: tags in several casings, halves of a tag, text.
Fragments ==
    { <<"<", "T", "h", "i", "n", "k", ">">>, <<"<", "/", "T", "H", "I", "N", "K", ">">>, <<"<", "T", "H">>, <<"i", "n", "k", ">">>, <<"A">>, <<"\n", "b">> }

RECURSIVE Concat(_)
Concat(ss) == IF ss = <<>> THEN <<>> ELSE Head(ss) \o Concat(Tail(ss))

SanitizerInputs ==
    { Concat(fs) : fs \in SeqsUpTo(Fragments, MaxFragments) } \cup
    { <<"A", "<", "T", "H", "I", "N", "K", ">", "s", "e", "c", "r", "e", "t", "<", "/", "T", "H", "I", "N", "K", ">", "B">> }

InitSanitize ==
    /\ ollama_uri = STR_default_uri
    /\ selected_llm = <<>>
    /\ llm_menu = <<>>
    /\ messages = <<>>
    /\ is_llm_running = FALSE
    /\ current = "chatbot_screen"
    /\ welcomed = FALSE
    /\ tmp_spin = FALSE
    /\ bot_msg = None
    /\ toast = None
    /\ chat_input = <<>>
    /\ threads = <<>>
    /\ clock = <<>>
    /\ posted = None
    /\ cb_log = <<>>
    /\ ui_pc = "idle"
    /\ \E text \in SanitizerInputs :
           call = [fn |-> "re.sub", n |-> 0, arg |-> text, once |-> text, out |-> text]

\* The substitution of line 345 applied to the text at hand: to the input,
\* and then to its own result.
call_re_sub ==
    /\ call.fn = "re.sub"
    /\ call.n < 2
    /\ call' = [fn |-> "re.sub", n |-> call.n + 1, arg |-> call.arg,
                once |-> IF call.n = 0 THEN re_sub_think(call.arg) ELSE call.once,
                out |-> re_sub_think(call.out)]
    /\ UNCHANGED app_vars

SpecSanitize == InitSanitize /\ [][call_re_sub]_vars

----------------------------------------------------------------------------
(* Claims about the session (specification Spec) *)

\* Chat requests dispatched by send_message and not yet delivered to
\* ollama_callback: a live worker thread, or a result waiting on the clock.
Outstanding == Len(threads) + Len(clock)

BusyToast == Toast("Please wait for the current response", TRUE)

\* C1: in every reachable state at most one chat request is outstanding,
\* whatever the interleaving of send attempts, worker completions and
\* callback deliveries.
C1_AtMostOneOutstanding == Outstanding <= 1

\* A request is outstanding and a further send attempt has been turned away.
C1_Witness == Outstanding = 1 /\ is_llm_running /\ toast = BusyToast

\* C2: a send attempt made while a chat request is outstanding shows the
\* busy message and is neither queued nor merged: no worker is started,
\* nothing is put on the clock, the transcript and the widget's text are
\* untouched and the guard stays set.
C2_BusySendRejected ==
    [][\A text \in ChatInputs :
          (Outstanding >= 1 /\ send_message(text)) =>
              /\ toast' = BusyToast
              /\ threads' = threads
              /\ clock' = clock
              /\ messages' = messages
              /\ chat_input' = text
              /\ is_llm_running']_vars

\* A non-blank text was submitted while a request was outstanding: it is
\* still in the widget and the busy message is shown.
C2_Witness ==
    /\ is_llm_running
    /\ Outstanding = 1
    /\ toast = BusyToast
    /\ strip(chat_input) # <<>>

\* w is the last min(ContextWindow, n) entries of the transcript msgs, in
\* their order.
IsTail(w, msgs) ==
    /\ Len(w) = IF Len(msgs) < 3 THEN Len(msgs) ELSE 3
    /\ \A k \in 1..Len(w) : w[k] = msgs[Len(msgs) - Len(w) + k]

\* C3: while a request is outstanding (the transcript then is the one of
\* the accepted send, user message appended), the window handed to the
\* worker, and after the POST the messages array of the body on the wire,
\* is exactly the last min(3, n) transcript entries in their order.
C3_WindowIsLastThree ==
    /\ \A i \in 1..Len(threads) : IsTail(threads[i].messages, messages)
    /\ (clock # <<>> \/ \E i \in 1..Len(threads) : threads[i].pc = "post") =>
          /\ posted.json.t = "dict"
          /\ posted.json.d["messages"].t = "list"
          /\ IsTail(posted.json.d["messages"].l, messages)

\* A request was posted from a transcript longer than the window.
C3_Witness ==
    /\ clock # <<>>
    /\ Len(messages) > 3
    /\ Len(posted.json.d["messages"].l) = 3

\* C9: the transcript grows by append only: every step leaves the existing
\* entries unchanged and in place.
C9_TranscriptAppendOnly ==
    [][/\ Len(messages') >= Len(messages)
       /\ SubSeq(messages', 1, Len(messages)) = messages]_vars

\* The endpoint was changed and the model list fetched again after a
\* complete exchange: the transcript still holds both of its entries.
C9_Witness ==
    /\ Len(messages) >= 2
    /\ ollama_uri # STR_default_uri
    /\ selected_llm = STR_None
    /\ bot_msg # None

----------------------------------------------------------------------------
(* Claims about chat_with_llm (specification SpecChat) *)

ChatCalled == call.fn = "chat_with_llm"

\* The body of the answered POST decoded to a JSON value.
DecodedJson == call.response.kind = "resp" /\ ~call.response.json.raised

\* The POST, or the decoding of its body, failed; FailureText is str(e).
TransportFailed == call.response.kind = "raise" \/ call.response.json.raised
FailureText ==
    IF call.response.kind = "raise" THEN call.response.msg ELSE call.response.json.msg

\* The ChatResult of the call can be read off the state: it was returned, or
\* it waits on the clock for the callback.
ResultVisible == ChatCalled /\ ~call.raised /\ (call.callback => clock # <<>>)
ChatResult == IF call.callback THEN clock[1] ELSE call.ret

\* C4: for every response whose body decodes to JSON, the ChatResult is the
\* value of the message field when the field is present, and otherwise
\* exactly {role: "error", content: "**Error** in LLM response!"}.
C4_MessageOrFixedError ==
    (ChatCalled /\ DecodedJson) =>
        /\ ~call.raised
        /\ ResultVisible =>
              LET v == call.response.json.val
              IN  IF v.t = "dict" /\ "message" \in DOMAIN v.d
                  THEN ChatResult = v.d["message"]
                  ELSE ChatResult = PyDict(<<KEY_role, KEY_content>>, [role |-> PyStr(STR_error),
                                            content |-> PyStr(STR_err_llm)])

\* C5: a failure of the POST or of the JSON decoding becomes a ChatResult
\* with role "error" and content "**Error** with Ollama: " followed by the
\* exception text, and no exception leaves chat_with_llm, with or without
\* a callback.
C5_TransportErrorInBand ==
    (ChatCalled /\ TransportFailed) =>
        /\ ~call.raised
        /\ LET result == PyDict(<<KEY_role, KEY_content>>, [role |-> PyStr(STR_error),
                                 content |-> PyStr(STR_err_ollama \o FailureText)])
           IN  IF call.callback
               THEN call.ret = None /\ (clock = <<result>> \/ Len(cb_log) = 1)
               ELSE call.ret = result

\* The connection was refused, in callback mode, and the error result waits
\* on the clock.
C5_Witness ==
    /\ ChatCalled
    /\ call.callback
    /\ call.response = HttpRaise(<<"r", "e", "f", "u", "s", "e", "d">>)
    /\ Len(clock) = 1
    /\ clock[1].d["role"] = PyStr(STR_error)

\* C6: with a callback, the callback is invoked exactly once per request
\* with the ChatResult, on the UI context only (never by the thread that
\* made the network call), and the call itself returns nothing; without a
\* callback the ChatResult is returned to the caller and nothing is queued
\* or invoked.
C6_DeliveryModes ==
    /\ \A k \in 1..Len(cb_log) : cb_log[k] = "ui"
    /\ ~ChatCalled => (clock = <<>> /\ cb_log = <<>>)
    /\ ChatCalled =>
          /\ ~call.raised
          /\ IF call.callback
             THEN /\ call.ret = None
                  /\ Len(clock) + Len(cb_log) = 1
                  /\ clock # <<>> => clock[1] = chat_return_resp(call.response).val
             ELSE /\ call.ret = chat_return_resp(call.response).val
                  /\ clock = <<>>
                  /\ cb_log = <<>>

\* The callback has run, once, on the UI context, and delivered an
\* assistant message into the transcript.
C6_Witness ==
    /\ ChatCalled
    /\ call.callback
    /\ cb_log = <<"ui">>
    /\ clock = <<>>
    /\ ~is_llm_running
    /\ messages[Len(messages)].d["role"] = PyStr(STR_assistant)

----------------------------------------------------------------------------
(* Claims about get_llm_models (specification SpecList) *)

ListDone == call.fn = "get_llm_models" /\ call.pc = "done"

\* The answer is a 2xx response whose body is a listing: an object whose
\* models field is an array of objects, each with a string name.
WellFormedListing(response) ==
    /\ response.kind = "resp"
    /\ response.status >= 200 /\ response.status < 300
    /\ ~response.json.raised
    /\ response.json.val.t = "dict"
    /\ "models" \in DOMAIN response.json.val.d
    /\ response.json.val.d["models"].t = "list"
    /\ \A k \in 1..Len(response.json.val.d["models"].l) :
          LET e == response.json.val.d["models"].l[k]
          IN  e.t = "dict" /\ "name" \in DOMAIN e.d /\ e.d["name"].t = "str"

\* The names of a well-formed listing, in the server's order.
ListedNames(response) ==
    [k \in 1..Len(response.json.val.d["models"].l) |->
        response.json.val.d["models"].l[k].d["name"].s]

\* name contains the substring "embed", compared case-sensitively.
ContainsEmbed(name) ==
    \E i \in 1..Len(name) :
        i + 4 <= Len(name) /\ SubSeq(name, i, i + 4) = <<"e", "m", "b", "e", "d">>

KeepChat(name) == ~ContainsEmbed(name)

\* C7: for a well-formed listing, get_llm_models returns exactly the
\* subsequence of the names that do not contain "embed", in the server's
\* order; an empty result is a normal return.
C7_EmbedFilter ==
    (ListDone /\ WellFormedListing(call.response)) =>
        /\ ~call.raised
        /\ call.ret = SelectSeq(ListedNames(call.response), KeepChat)

\* A listing mixing chat models, embedding models and a name with "Embed"
\* in another casing was filtered.
C7_Witness ==
    /\ ListDone
    /\ WellFormedListing(call.response)
    /\ ListedNames(call.response) = << <<"E", "m", "b", "e", "d">>, <<"a">>, <<"a", "-", "e", "m", "b", "e", "d">> >>
    /\ call.ret = << <<"E", "m", "b", "e", "d">>, <<"a">> >>

\* The transport failed, as the original claim reads it: no response, a
\* status outside 2xx, or a body that does not decode.
ListFailedNon2xx(response) ==
    \/ response.kind = "raise"
    \/ response.status < 200 \/ response.status >= 300
    \/ response.json.raised

\* The transport failed, as the code reads it: no response, a 4xx or 5xx
\* status, or a body that does not decode.
ListFailed(response) ==
    \/ response.kind = "raise"
    \/ response.status >= 400 /\ response.status < 600
    \/ response.json.raised

\* C8 as stated: on a connection error, a non-2xx status or an undecodable
\* body, get_llm_models returns the empty sequence and raises nothing.
C8_EmptyOnNon2xx ==
    (ListDone /\ ListFailedNon2xx(call.response)) =>
        (~call.raised /\ call.ret = <<>>)

\* C8 as amended: on a connection error, a 4xx or 5xx status or an
\* undecodable body, get_llm_models returns the empty sequence and raises
\* nothing; in every case the caller receives a sequence.
C8_EmptyOnFailure ==
    ListDone =>
        /\ ~call.raised
        /\ ListFailed(call.response) => call.ret = <<>>

\* A 404 answer carrying a listing of two chat models gave the empty list.
C8_Witness ==
    /\ ListDone
    /\ call.response.kind = "resp"
    /\ call.response.status = 404
    /\ ~call.response.json.raised
    /\ Len(call.response.json.val.d["models"].l) = 2
    /\ call.ret = <<>>

----------------------------------------------------------------------------
(* Claims about the sanitizer (specification SpecSanitize) *)

\* s holds a <THINK>...</THINK> span: an opening tag and, after it, a
\* closing tag, in any casing.
HasThinkSpan(s) ==
    \E i \in 1..Len(s), j \in 1..Len(s) :
        /\ j >= i + 7
        /\ i + 6 <= Len(s) /\ j + 7 <= Len(s)
        /\ [k \in 1..7 |-> Lower(s[i + k - 1])] = <<"<", "t", "h", "i", "n", "k", ">">>
        /\ [k \in 1..8 |-> Lower(s[j + k - 1])] = <<"<", "/", "t", "h", "i", "n", "k", ">">>

\* C10: the sanitizer is idempotent for every input (applied twice it gives
\* what it gives applied once), returns a text without a <THINK> block
\* unchanged, and turns "A<THINK>secret</THINK>B" into "AB".
C10_SanitizerIdempotent ==
    call.fn = "re.sub" =>
        /\ call.n = 2 => call.out = call.once
        /\ (call.n >= 1 /\ ~HasThinkSpan(call.arg)) => call.once = call.arg
        /\ (call.n >= 1 /\ call.arg = <<"A", "<", "T", "H", "I", "N", "K", ">", "s", "e", "c", "r", "e", "t", "<", "/", "T", "H", "I", "N", "K", ">", "B">>)
              => call.once = <<"A", "B">>

----------------------------------------------------------------------------
(* Claims about the guard and the transcript around a request (Spec) *)

\* C11: the guard is set before the request is dispatched and cleared only
\* when the result is delivered: in every state in which a worker for a chat
\* request has been started and its result not yet delivered (the thread is
\* alive, or its result waits on the clock), the guard is true.
C11_GuardWhileOutstanding == Outstanding >= 1 => is_llm_running

\* C12: every accepted send ends with the delivery of its ChatResult, after
\* which the guard is clear and a new send is accepted, whatever the server
\* answered: once nothing is outstanding any more (no live worker, no result
\* waiting on the clock), the guard is not set and the main loop is running.
C12_DeliveredThenIdle ==
    Outstanding = 0 => (~is_llm_running /\ ui_pc # "crashed")

\* The step dispatches a request: send_message has started a worker.
Dispatched == Len(threads') = Len(threads) + 1

\* The step delivers a result: the main loop has called ollama_callback
\* with the oldest event of the clock.
Delivered == Len(cb_log') = Len(cb_log) + 1 /\ clock # <<>>

\* m is a ChatResult with the given role: a dict with that role and a text.
HasRole(m, role) ==
    /\ m.t = "dict"
    /\ DOMAIN m.d = {"role", "content"}
    /\ m.d["role"] = PyStr(role)
    /\ m.d["content"].t = "str"

\* The step appends one user message, which is also the last entry of the
\* window handed to the worker started in the step.
UserMessageAppended ==
    /\ Len(messages') = Len(messages) + 1
    /\ SubSeq(messages', 1, Len(messages)) = messages
    /\ HasRole(messages'[Len(messages')], STR_user)
    /\ messages'[Len(messages')].d["content"].s \in
           { strip(text) : text \in ChatInputs } \ { <<>> }
    /\ LET w == threads'[Len(threads')].messages
       IN  w # <<>> /\ w[Len(w)] = messages'[Len(messages')]

\* C13 as stated: the user message is appended before the request is
\* dispatched, and after delivery the delivered result is appended, whether
\* it is an assistant message or an error message: each completed request
\* adds exactly two transcript entries.
C13_ResultAlwaysAppended ==
    [][/\ Dispatched => UserMessageAppended
       /\ (Delivered /\ (HasRole(Head(clock), STR_assistant)
                         \/ HasRole(Head(clock), STR_error)))
             => messages' = Append(messages, Head(clock))]_vars

\* C13 as amended: the user message is appended before the request is
\* dispatched; after delivery the delivered result is appended if its role
\* is "assistant" and the transcript is left as it is otherwise (an error
\* message is shown, not appended); no other step writes the transcript.
C13_AssistantAppended ==
    [][/\ Dispatched => UserMessageAppended
       /\ Delivered =>
             messages' = IF Head(clock).t = "dict"
                            /\ "role" \in DOMAIN Head(clock).d
                            /\ Head(clock).d["role"] = PyStr(STR_assistant)
                         THEN Append(messages, Head(clock))
                         ELSE messages
       /\ (~Dispatched /\ ~Delivered) => messages' = messages]_vars

\* A first request was answered by the assistant (two entries), a second by
\* the fixed error message (one entry, the error is shown only).
C13_Witness ==
    /\ Len(messages) = 3
    /\ HasRole(messages[2], STR_assistant)
    /\ HasRole(messages[3], STR_user)
    /\ cb_log = <<"ui", "ui">>
    /\ Outstanding = 0
    /\ ~is_llm_running
    /\ bot_msg = PyStr(STR_bot \o STR_err_llm)

----------------------------------------------------------------------------
(* Claims about partial listings (specification SpecList) *)

HasName(entry) == "name" \in DOMAIN entry.d

\* The answer is a 2xx response whose body is a listing in which every entry
\* is an object, some of them without the name field, the others with a
\* string name.
PartialListing(response) ==
    /\ response.kind = "resp"
    /\ response.status >= 200 /\ response.status < 300
    /\ ~response.json.raised
    /\ response.json.val.t = "dict"
    /\ "models" \in DOMAIN response.json.val.d
    /\ response.json.val.d["models"].t = "list"
    /\ \A k \in 1..Len(response.json.val.d["models"].l) :
          LET e == response.json.val.d["models"].l[k]
          IN  e.t = "dict" /\ (HasName(e) => e.d["name"].t = "str")
    /\ \E k \in 1..Len(response.json.val.d["models"].l) :
          ~HasName(response.json.val.d["models"].l[k])

\* The names of the entries of a partial listing that have one, in the
\* server's order.
NamesPresent(response) ==
    LET named == SelectSeq(response.json.val.d["models"].l, HasName)
    IN  [k \in 1..Len(named) |-> named[k].d["name"].s]

\* C14: when some entries of the listing lack the name field,
\* get_llm_models omits only those entries and returns every other
\* non-embedding name in the server's order; a malformed entry does not
\* abort the rest of the listing.
C14_MalformedEntriesSkipped ==
    (ListDone /\ PartialListing(call.response)) =>
        /\ ~call.raised
        /\ call.ret = SelectSeq(NamesPresent(call.response), KeepChat)

----------------------------------------------------------------------------
(* Claims about the model name and the endpoint (specification Spec) *)

\* name is one of the names the most recent listing call returned: the menu
\* holds exactly the list update_chatbot_welcome received from it.
Listed(name) == \E k \in 1..Len(llm_menu) : llm_menu[k] = name

\* C15: whenever a chat request is dispatched, the model name handed to the
\* worker is one of the names returned by the most recent listing call,
\* also when that call returned no names or failed.
C15_ModelIsListed ==
    [][Dispatched => Listed(threads'[Len(threads')].model)]_vars

\* text is empty or holds whitespace only.
Blank(text) == \A k \in 1..Len(text) : IsSpace(text[k])

\* u is text without its leading and trailing whitespace: a slice of text
\* that neither starts nor ends with whitespace, with only whitespace
\* around it.
IsStripped(u, text) ==
    /\ u # <<>>
    /\ ~IsSpace(u[1]) /\ ~IsSpace(u[Len(u)])
    /\ \E i \in 1..Len(text) :
          /\ i + Len(u) - 1 <= Len(text)
          /\ SubSeq(text, i, i + Len(u) - 1) = u
          /\ Blank(SubSeq(text, 1, i - 1))
          /\ Blank(SubSeq(text, i + Len(u), Len(text)))

\* C16: the stored endpoint is non-empty in every state reachable after
\* build, for any sequence of endpoint submissions: a submission that is
\* empty or only whitespace leaves the stored endpoint unchanged while still
\* navigating to the chat screen, and a non-empty submission replaces it
\* with the stripped text.
C16_EndpointNonEmpty ==
    /\ [](ollama_uri # <<>>)
    /\ [][\A text \in UriInputs :
             go_to_chatbot(text) =>
                 /\ current' = "chatbot_screen"
                 /\ IF Blank(text)
                    THEN ollama_uri' = ollama_uri
                    ELSE IsStripped(ollama_uri', text)]_vars

\* The endpoint was replaced by a submitted text, stripped, and a blank
\* submission was answered with the default-URL message: the endpoint is
\* the submitted one and the chat screen is shown.
C16_Witness ==
    /\ ollama_uri = <<"h", ":", "1">>
    /\ toast = Toast("Using default Ollama URL", FALSE)
    /\ current = "chatbot_screen"
    /\ messages # <<>>

====
